---- MODULE Spec2Model ----
(***************************************************************************)
(* Window-management state machine of stupidwm (src/stupidwm.c).           *)
(*                                                                         *)
(* Client nodes live in a heap of records linked by next/prev pointers;    *)
(* the workspace table holds a (first, curr) pair per workspace; every     *)
(* handler is an operator from program state to program state, composed    *)
(* from operators that follow the C functions statement by statement.      *)
(* The X server side is modelled by the set of existing windows, the last  *)
(* Map/Unmap issued per window and the log of calls issued by the handler  *)
(* that ran last.                                                          *)
(*                                                                         *)
(* Spec is the running manager on one monitor at the origin.  SpecQuit     *)
(* adds the quit key, the loop inside quit() and the server's event queue; *)
(* SpecQuitLive adds clients that close and a server that delivers.        *)
(* SpecCommands is the manager on one workspace with every focus command,  *)
(* swap_curr_with_master() included; SpecWorkspaces is the manager under   *)
(* map, destroy and the two workspace commands.  SpecStart begins before   *)
(* setup_monitors() and runs main() against several output lists.          *)
(***************************************************************************)
EXTENDS Integers, Sequences, FiniteSets, TLC

\* ------------------------------------------------------------------ bounds
MaxNodes == 3
MaxWindows == 3
MaxKeyIdx == 1
MaxDrainWindows == 2

\* --------------------------------------------------------------- constants
WORKSPACE_COUNT == 10
bar_height == 20
space == 10
NULL == 0
rootwin == 0

Nodes == 1..MaxNodes
Windows == 1..MaxWindows
WsIdx == 0..(WORKSPACE_COUNT - 1)
\* The digit keys pressed in the checked runs: Super+1 .. Super+(MaxKeyIdx+1).
KeyIdx == 0..MaxKeyIdx
bar_window == MaxWindows + 1

FOCUS == "#f9f5d7"
UNFOCUS == "#282828"

\* Outcomes of the store through the null cl->next in remove_window's tail
\* branch: the store faults, or the build dropped it.
UBOutcomes == {"trap", "elide"}

VARIABLES heap, allocated, workspaces, monitors, selected_monitor,
          vis, calls, crashed, alive, last_event,
          quit_flag, pc, nchildren, exit_code, nesting, xqueue

vars == <<heap, allocated, workspaces, monitors, selected_monitor,
          vis, calls, crashed, alive, last_event,
          quit_flag, pc, nchildren, exit_code, nesting, xqueue>>

\* --------------------------------------------------------------- data model
ZeroClient == [next |-> NULL, prev |-> NULL, window |-> 0]

EmptyWorkspace == [first |-> NULL, curr |-> NULL]

\* No exit status yet: the process is alive or was killed by a signal.
NoExit == -1

\* DestroyNotify events queued per window, and the number of ClientMessage
\* events queued for the manager itself.
EmptyQueue == [destroys |-> {}, messages |-> 0]

Monitor(x, y, width, height, primary) ==
    [x |-> x, y |-> y, width |-> width, height |-> height,
     primary |-> primary, curr_workspace |-> 0]

\* Output tree found at startup: one 1920x1080 output at the origin.
MonitorSetups ==
    { <<Monitor(0, 0, 1920, 1080, TRUE)>> }

\* The program state the handlers read and write, as one record.
\* pc is where the process stands: "main" before the setup of main(), "start"
\* blocked in the XNextEvent of start(), "drain" blocked in the XNextEvent of
\* quit()'s loop, "exited" after exit() or the return of main().  nchildren is
\* quit()'s local; nesting counts the handler activations that had not returned
\* when the last event was dequeued; xqueue holds the events the server has
\* queued for the manager and that it has not dequeued yet.
State ==
    [heap |-> heap, allocated |-> allocated, workspaces |-> workspaces,
     monitors |-> monitors, selected_monitor |-> selected_monitor,
     vis |-> vis, calls |-> calls, crashed |-> crashed,
     quit_flag |-> quit_flag, pc |-> pc, nchildren |-> nchildren,
     exit_code |-> exit_code, nesting |-> nesting, xqueue |-> xqueue]

\* selected_monitor->curr_workspace
CurWs(s) == s.monitors[s.selected_monitor].curr_workspace

SEL_MONITOR_WS(s) == s.workspaces[CurWs(s)]

\* for (cl = first; cl != NULL; cl = cl->next): the nodes visited, in order.
RECURSIVE Walk(_, _, _)
Walk(h, cl, fuel) ==
    IF cl = NULL \/ fuel = 0 THEN <<>>
    ELSE <<cl>> \o Walk(h, h[cl].next, fuel - 1)

ClientList(s, i) == Walk(s.heap, s.workspaces[i].first, MaxNodes)

WindowList(s, i) ==
    LET L == ClientList(s, i) IN [k \in 1..Len(L) |-> s.heap[L[k]].window]

SeqRange(q) == {q[k] : k \in 1..Len(q)}

RECURSIVE Flatten(_)
Flatten(ss) == IF ss = <<>> THEN <<>> ELSE Head(ss) \o Flatten(Tail(ss))

\* ------------------------------------------------------- Display Surface
XCall(name, w, args, color) ==
    [call |-> name, window |-> w, args |-> args, color |-> color]

Issue(s, c) == [s EXCEPT !.calls = Append(@, c)]

XMapWindow(s, w) ==
    [Issue(s, XCall("XMapWindow", w, <<>>, "")) EXCEPT !.vis[w] = "map"]

XUnmapWindow(s, w) ==
    [Issue(s, XCall("XUnmapWindow", w, <<>>, "")) EXCEPT !.vis[w] = "unmap"]

\* XMoveResizeWindow declares width and height unsigned and the request carries
\* them as 16-bit cardinals: an int argument arrives modulo 2^16, so a
\* negative extent computed by the caller becomes a large positive one.
CARD16 == 65536

XMoveResizeWindow(w, x, y, width, height) ==
    XCall("XMoveResizeWindow", w, <<x, y, width % CARD16, height % CARD16>>, "")

\* ------------------------------------------------------------- update_curr
update_curr_client(s, cl) ==
    IF SEL_MONITOR_WS(s).curr = cl
    THEN << XCall("XSetWindowBorderWidth", s.heap[cl].window, <<5>>, ""),
            XCall("XSetWindowBorder", s.heap[cl].window, <<>>, FOCUS),
            XCall("XSetInputFocus", s.heap[cl].window, <<>>, ""),
            XCall("XRaiseWindow", s.heap[cl].window, <<>>, "") >>
    ELSE << XCall("XSetWindowBorder", s.heap[cl].window, <<>>, UNFOCUS) >>

update_curr(s) ==
    LET L == ClientList(s, CurWs(s))
    IN [s EXCEPT !.calls =
            @ \o Flatten([k \in 1..Len(L) |-> update_curr_client(s, L[k])])]

\* ---------------------------------------------------------------- draw_bar
draw_bar(s) ==
    Issue(s, XCall("draw_bar", bar_window,
                   SelectSeq([k \in 1..WORKSPACE_COUNT |-> k - 1],
                             LAMBDA i : i = CurWs(s)),
                   ""))

\* ------------------------------------------------------------- tile_screen
\* tile_screen without the `y +=` of the stack loop: every stack tile is
\* placed at start_y.
tile_screen_y_not_advanced(s) ==
    LET m == s.monitors[s.selected_monitor]
        first == SEL_MONITOR_WS(s).first
        start_y == bar_height + space
    IN  IF first # NULL /\ s.heap[first].next = NULL
        THEN Issue(s, XMoveResizeWindow(s.heap[first].window, space, start_y,
                                        m.width - 3 * space,
                                        m.height - 3 * space))
        ELSE IF first # NULL /\ s.heap[first].next # NULL
        THEN LET master_size == (55 * m.width) \div 100
                 x == master_size + 3 * space
                 tile_height == m.width - master_size - 5 * space
                 stack == Walk(s.heap, s.heap[first].next, MaxNodes)
                 num_windows == Len(stack)
             IN [s EXCEPT !.calls =
                    (@ \o << XMoveResizeWindow(s.heap[first].window, space,
                                start_y, master_size, m.height - 2 * space) >>)
                    \o [k \in 1..num_windows |->
                          XMoveResizeWindow(s.heap[stack[k]].window, x,
                              start_y,
                              tile_height,
                              (m.height \div num_windows) - 2 * space)]]
        ELSE s

tile_screen(s) ==
    LET m == s.monitors[s.selected_monitor]
        first == SEL_MONITOR_WS(s).first
        start_y == bar_height + space
    IN  IF first # NULL /\ s.heap[first].next = NULL
        THEN Issue(s, XMoveResizeWindow(s.heap[first].window, space, start_y,
                                        m.width - 3 * space,
                                        m.height - 3 * space))
        ELSE IF first # NULL /\ s.heap[first].next # NULL
        THEN LET master_size == (55 * m.width) \div 100
                 x == master_size + 3 * space
                 tile_height == m.width - master_size - 5 * space
                 stack == Walk(s.heap, s.heap[first].next, MaxNodes)
                 num_windows == Len(stack)
             IN [s EXCEPT !.calls =
                    (@ \o << XMoveResizeWindow(s.heap[first].window, space,
                                start_y, master_size, m.height - 2 * space) >>)
                    \o [k \in 1..num_windows |->
                          XMoveResizeWindow(s.heap[stack[k]].window, x,
                              start_y + (k - 1) * (m.height \div num_windows),
                              tile_height,
                              (m.height \div num_windows) - 2 * space)]]
        ELSE s

\* ------------------------------------------------ save_state / update_global
save_state(s, idx) ==
    LET cur == SEL_MONITOR_WS(s).curr
        s1 == [s EXCEPT !.workspaces[idx].curr = cur]
    IN [s1 EXCEPT !.workspaces[idx].first = SEL_MONITOR_WS(s1).first]

\* update_global that only moves the active index and copies no slot.
update_global_index_only(s, idx) ==
    [s EXCEPT !.monitors[s.selected_monitor].curr_workspace = idx]

update_global(s, idx) ==
    LET s1 == [s EXCEPT !.workspaces[CurWs(s)].first = s.workspaces[idx].first]
        s2 == [s1 EXCEPT !.workspaces[CurWs(s1)].curr = s1.workspaces[idx].curr]
    IN [s2 EXCEPT !.monitors[s.selected_monitor].curr_workspace = idx]

\* -------------------------------------------------------------- add_window
FreeNodes(s) == Nodes \ s.allocated

\* calloc: some block that is not in use, zero-filled.
calloc(s) == CHOOSE n \in FreeNodes(s) : \A o \in FreeNodes(s) : n <= o

\* add_window linking the new node in front of the list instead of behind it.
add_window_at_head(s, w) ==
    LET cl == calloc(s)
        i == CurWs(s)
        first == s.workspaces[i].first
        s0 == [s EXCEPT !.allocated = @ \cup {cl},
                        !.heap[cl] = [next |-> first, prev |-> NULL, window |-> w],
                        !.workspaces[i].first = cl]
        s1 == IF first = NULL THEN s0 ELSE [s0 EXCEPT !.heap[first].prev = cl]
        s2 == Issue(s1, XCall("XSelectInput", w, <<>>, ""))
    IN [s2 EXCEPT !.workspaces[i].curr = cl]

add_window(s, w) ==
    LET cl == calloc(s)
        i == CurWs(s)
        first == s.workspaces[i].first
        s0 == [s EXCEPT !.allocated = @ \cup {cl}, !.heap[cl] = ZeroClient]
        last == LET L == Walk(s0.heap, first, MaxNodes) IN L[Len(L)]
        s1 == IF first = NULL
              THEN [s0 EXCEPT !.heap[cl] = [next |-> NULL, prev |-> NULL, window |-> w],
                              !.workspaces[i].first = cl]
              ELSE [s0 EXCEPT !.heap[cl] = [next |-> NULL, prev |-> last, window |-> w],
                              !.heap[last].next = cl]
        s2 == Issue(s1, XCall("XSelectInput", w, <<>>, ""))
    IN [s2 EXCEPT !.workspaces[i].curr = cl]

\* ----------------------------------------------------------- remove_window
\* cl is the only node: free(first); first = curr = NULL; return.
remove_only(s, cl) ==
    LET i == CurWs(s)
    IN [s EXCEPT !.allocated = @ \ {s.workspaces[i].first},
                 !.workspaces[i].first = NULL,
                 !.workspaces[i].curr = NULL]

\* remove_head that forgets to move the focus cursor off the unlinked node.
remove_head_stale_curr(s, cl) ==
    LET i == CurWs(s)
        nx == s.heap[cl].next
    IN [s EXCEPT !.workspaces[i].first = nx,
                 !.heap[nx].prev = NULL]

\* cl->prev == NULL
remove_head(s, cl) ==
    LET i == CurWs(s)
        nx == s.heap[cl].next
    IN [s EXCEPT !.workspaces[i].first = nx,
                 !.heap[nx].prev = NULL,
                 !.workspaces[i].curr = nx]

\* cl->next == NULL: the second statement stores through the null cl->next.
remove_tail(s, cl, ub) ==
    LET i == CurWs(s)
        pv == s.heap[cl].prev
        s1 == [s EXCEPT !.heap[pv].next = NULL]
    IN IF ub = "trap"
       THEN [s1 EXCEPT !.crashed = TRUE]
       ELSE [s1 EXCEPT !.workspaces[i].curr = pv]

\* remove_middle that forgets the back link of the successor.
remove_middle_no_back_link(s, cl) ==
    LET i == CurWs(s)
        pv == s.heap[cl].prev
        nx == s.heap[cl].next
    IN [s EXCEPT !.heap[pv].next = nx,
                 !.workspaces[i].curr = pv]

remove_middle(s, cl) ==
    LET i == CurWs(s)
        pv == s.heap[cl].prev
        nx == s.heap[cl].next
    IN [s EXCEPT !.heap[pv].next = nx,
                 !.heap[nx].prev = pv,
                 !.workspaces[i].curr = pv]

RECURSIVE remove_scan(_, _, _, _, _)
remove_scan(s, cl, w, ub, fuel) ==
    IF cl = NULL \/ fuel = 0 \/ s.crashed THEN s
    ELSE IF s.heap[cl].window # w
         THEN remove_scan(s, s.heap[cl].next, w, ub, fuel - 1)
    ELSE IF s.heap[cl].prev = NULL /\ s.heap[cl].next = NULL
         THEN remove_only(s, cl)
    ELSE LET s1 == IF s.heap[cl].prev = NULL THEN remove_head(s, cl)
                   ELSE IF s.heap[cl].next = NULL THEN remove_tail(s, cl, ub)
                   ELSE remove_middle(s, cl)
         IN remove_scan(s1, s1.heap[cl].next, w, ub, fuel - 1)

remove_window(s, w, ub) ==
    remove_scan(s, SEL_MONITOR_WS(s).first, w, ub, MaxNodes)

\* What follows remove_window in a handler: it runs only if the process is
\* still there.
relayout_refocus(s) == IF s.crashed THEN s ELSE update_curr(tile_screen(s))

\* ------------------------------------------------------ client_to_workspace
client_to_workspace(s, idx, ub) ==
    LET tmp == SEL_MONITOR_WS(s).curr
        tmp2 == idx
    IN IF idx = CurWs(s) \/ SEL_MONITOR_WS(s).curr = NULL THEN s
       ELSE LET s1 == update_global(s, idx)
                s2 == add_window(s1, s1.heap[tmp].window)
                s3 == save_state(s2, idx)
                s4 == update_global(s3, tmp2)
                s5 == remove_window(s4, s4.heap[SEL_MONITOR_WS(s4).curr].window, ub)
            IN relayout_refocus(s5)

\* --------------------------------------------------------- change_workspace
\* change_workspace that leaves the old workspace's windows on screen.
unmap_all_skipped(s, ws) == s

RECURSIVE unmap_all(_, _)
unmap_all(s, ws) ==
    IF ws = <<>> THEN s ELSE unmap_all(XUnmapWindow(s, Head(ws)), Tail(ws))

RECURSIVE map_all(_, _)
map_all(s, ws) ==
    IF ws = <<>> THEN s ELSE map_all(XMapWindow(s, Head(ws)), Tail(ws))

change_workspace(s, idx) ==
    IF idx = CurWs(s) THEN s
    ELSE LET s1 == unmap_all(s, WindowList(s, CurWs(s)))
             s2 == save_state(s1, CurWs(s1))
             s3 == update_global(s2, idx)
             s4 == map_all(s3, WindowList(s3, CurWs(s3)))
         IN draw_bar(update_curr(tile_screen(s4)))

\* --------------------------------------------------------------- maprequest
\* maprequest without the scan for an already managed window.
maprequest_no_precheck(s, w) ==
    update_curr(tile_screen(XMapWindow(add_window(s, w), w)))

maprequest(s, w) ==
    IF w \in SeqRange(WindowList(s, CurWs(s)))
    THEN XMapWindow(s, w)
    ELSE update_curr(tile_screen(XMapWindow(add_window(s, w), w)))

\* -------------------------------------------------------------- enternotify
\* enternotify with update_curr() after the scan instead of inside the match.
enternotify_always_refocus(s, w) ==
    LET L == ClientList(s, CurWs(s))
        hits == {k \in 1..Len(L) : s.heap[L[k]].window = w}
    IN IF w # rootwin /\ hits # {}
       THEN LET k == CHOOSE j \in hits : \A o \in hits : j <= o
            IN update_curr([s EXCEPT !.workspaces[CurWs(s)].curr = L[k]])
       ELSE update_curr(s)

enternotify(s, w) ==
    IF w = rootwin THEN s
    ELSE LET L == ClientList(s, CurWs(s))
             hits == {k \in 1..Len(L) : s.heap[L[k]].window = w}
         IN IF hits = {} THEN s
            ELSE LET k == CHOOSE j \in hits : \A o \in hits : j <= o
                 IN update_curr([s EXCEPT !.workspaces[CurWs(s)].curr = L[k]])

\* ------------------------------------------------------------ destroynotify
\* destroynotify without the found_window test.
destroynotify_no_membership_check(s, w, ub) ==
    relayout_refocus(remove_window(s, w, ub))

destroynotify(s, w, ub) ==
    LET found_window == w \in SeqRange(WindowList(s, CurWs(s)))
    IN IF ~found_window THEN s
       ELSE relayout_refocus(remove_window(s, w, ub))

\* ---------------------------------------------------------------- kill_curr
\* The bar window create_monitor makes for the k-th monitor.
MonitorBar(k) == bar_window + k

\* The children of root the manager itself created: setup_bar's bar and one
\* bar per monitor.
BarWindows(s) == {bar_window} \cup {MonitorBar(k) : k \in 1..Len(s.monitors)}

\* XSendEvent with NoEventMask goes to the client that created the window: a
\* message for one of the bars comes back into the manager's own queue.
send_kill_signal(s, w) ==
    LET s1 == Issue(s, XCall("XSendEvent", w, <<>>, "WM_DELETE_WINDOW"))
    IN IF w \in BarWindows(s)
       THEN [s1 EXCEPT !.xqueue.messages = @ + 1]
       ELSE s1

\* kill_curr without the inline XSendEvent: send_kill_signal alone.
kill_curr_single_message(s) ==
    IF SEL_MONITOR_WS(s).curr # NULL
    THEN send_kill_signal(s, s.heap[SEL_MONITOR_WS(s).curr].window)
    ELSE s

kill_curr(s) ==
    IF SEL_MONITOR_WS(s).curr # NULL
    THEN LET w == s.heap[SEL_MONITOR_WS(s).curr].window
         IN send_kill_signal(Issue(s, XCall("XSendEvent", w, <<>>, "WM_DELETE_WINDOW")), w)
    ELSE s

\* ------------------------------------------------------------------- move_*
move_left(s) ==
    IF SEL_MONITOR_WS(s).curr = NULL \/ SEL_MONITOR_WS(s).first = NULL THEN s
    ELSE update_curr([s EXCEPT !.workspaces[CurWs(s)].curr = SEL_MONITOR_WS(s).first])

\* move_right stepping to the successor of whichever client is focused.
move_right_from_any(s) ==
    IF SEL_MONITOR_WS(s).curr = NULL \/ SEL_MONITOR_WS(s).first = NULL THEN s
    ELSE update_curr(
           IF s.heap[SEL_MONITOR_WS(s).curr].next # NULL
           THEN [s EXCEPT !.workspaces[CurWs(s)].curr = s.heap[SEL_MONITOR_WS(s).curr].next]
           ELSE s)

move_right(s) ==
    IF SEL_MONITOR_WS(s).curr = NULL \/ SEL_MONITOR_WS(s).first = NULL THEN s
    ELSE update_curr(
           IF SEL_MONITOR_WS(s).curr = SEL_MONITOR_WS(s).first
              /\ s.heap[SEL_MONITOR_WS(s).first].next # NULL
           THEN [s EXCEPT !.workspaces[CurWs(s)].curr = s.heap[SEL_MONITOR_WS(s).first].next]
           ELSE s)

move_up(s) ==
    IF SEL_MONITOR_WS(s).curr = NULL \/ SEL_MONITOR_WS(s).first = NULL THEN s
    ELSE update_curr(
           IF SEL_MONITOR_WS(s).curr # SEL_MONITOR_WS(s).first
              /\ s.heap[SEL_MONITOR_WS(s).curr].prev # NULL
           THEN [s EXCEPT !.workspaces[CurWs(s)].curr = s.heap[SEL_MONITOR_WS(s).curr].prev]
           ELSE s)

move_down(s) ==
    IF SEL_MONITOR_WS(s).curr = NULL \/ SEL_MONITOR_WS(s).first = NULL THEN s
    ELSE update_curr(
           IF s.heap[SEL_MONITOR_WS(s).curr].next # NULL
           THEN [s EXCEPT !.workspaces[CurWs(s)].curr = s.heap[SEL_MONITOR_WS(s).curr].next]
           ELSE s)

\* ----------------------------------------------------------- state machine
\* --------------------------------------------------- swap_curr_with_master
\* swap_curr_with_master without the temporary: the head's window is lost.
swap_curr_with_master_no_tmp(s) ==
    LET first == SEL_MONITOR_WS(s).first
        curr == SEL_MONITOR_WS(s).curr
    IN IF first # NULL /\ curr # first /\ curr # NULL
       THEN LET s1 == [s EXCEPT !.heap[first].window = s.heap[curr].window]
                s2 == [s1 EXCEPT !.heap[curr].window = s1.heap[first].window]
                s3 == [s2 EXCEPT !.workspaces[CurWs(s)].curr = first]
            IN update_curr(tile_screen(s3))
       ELSE s

swap_curr_with_master(s) ==
    LET first == SEL_MONITOR_WS(s).first
        curr == SEL_MONITOR_WS(s).curr
    IN IF first # NULL /\ curr # first /\ curr # NULL
       THEN LET tmp == s.heap[first].window
                s1 == [s EXCEPT !.heap[first].window = s.heap[curr].window]
                s2 == [s1 EXCEPT !.heap[curr].window = tmp]
                s3 == [s2 EXCEPT !.workspaces[CurWs(s)].curr = first]
            IN update_curr(tile_screen(s3))
       ELSE s

Init ==
    /\ heap = [n \in Nodes |-> ZeroClient]
    /\ allocated = {}
    /\ workspaces = [i \in WsIdx |-> EmptyWorkspace]
    /\ monitors \in MonitorSetups
    /\ selected_monitor = 1
    /\ vis = [w \in Windows |-> "none"]
    /\ calls = <<>>
    /\ crashed = FALSE
    /\ alive = {}
    /\ last_event = [type |-> "init", arg |-> 0]
    /\ quit_flag = FALSE
    /\ pc = "start"
    /\ nchildren = 0
    /\ exit_code = NoExit
    /\ nesting = 0
    /\ xqueue = EmptyQueue

\* The state a handler starts from: nothing issued yet.  An event dequeued by
\* quit()'s loop finds the keypress activation that called quit() still open.
Entry ==
    [State EXCEPT !.calls = <<>>,
                  !.nesting = IF pc = "drain" THEN 1 ELSE 0]

\* Nodes some pointer of the program still leads to.
Reachable(s) ==
    UNION { SeqRange(ClientList(s, i)) \cup ({s.workspaces[i].curr} \ {NULL})
            : i \in WsIdx }

\* A block that no pointer leads to is never read again (the program keeps no
\* other reference to a node), so its bytes are recorded as zero: states that
\* differ only in unreachable garbage are one state.  The block itself stays
\* allocated unless free() released it.
Apply(s) ==
    /\ \E live \in {Reachable(s)} :
          heap' = [n \in Nodes |-> IF n \in live THEN s.heap[n] ELSE ZeroClient]
    /\ allocated' = s.allocated
    /\ workspaces' = s.workspaces
    /\ monitors' = s.monitors
    /\ selected_monitor' = s.selected_monitor
    /\ vis' = s.vis
    /\ calls' = s.calls
    /\ crashed' = s.crashed
    /\ quit_flag' = s.quit_flag
    /\ pc' = s.pc
    /\ nchildren' = s.nchildren
    /\ exit_code' = s.exit_code
    /\ nesting' = s.nesting
    /\ xqueue' = s.xqueue

Event(type, arg) == last_event' = [type |-> type, arg |-> arg]

Managed(s, w) == w \in SeqRange(WindowList(s, CurWs(s)))

MapRequest(w) ==
    /\ ~crashed
    /\ Managed(State, w) \/ FreeNodes(State) # {}
    /\ \E t \in {maprequest(Entry, w)} : Apply(t)
    /\ alive' = alive \cup {w}
    /\ Event("maprequest", w)

\* The window is gone on the X side before the handler runs; the handler ends
\* in one of the outcomes the build can produce.
DestroyNotify(w) ==
    /\ ~crashed
    /\ \E t \in {[destroynotify(Entry, w, ub) EXCEPT !.vis[w] = "none"]
                  : ub \in UBOutcomes} : Apply(t)
    /\ alive' = alive \ {w}
    /\ Event("destroynotify", w)

EnterNotify(w) ==
    /\ ~crashed
    /\ w \in alive \cup {rootwin}
    /\ \E t \in {enternotify(Entry, w)} : Apply(t)
    /\ UNCHANGED alive
    /\ Event("enternotify", w)

\* keypress: the bindings of keys[], one action per bound function.
KeyChangeWorkspace(idx) ==
    /\ ~crashed
    /\ \E t \in {change_workspace(Entry, idx)} : Apply(t)
    /\ UNCHANGED alive
    /\ Event("change_workspace", idx)

KeyClientToWorkspace(idx) ==
    /\ ~crashed
    /\ \/ idx = CurWs(State)
       \/ SEL_MONITOR_WS(State).curr = NULL
       \/ FreeNodes(State) # {}
    /\ \E t \in {client_to_workspace(Entry, idx, ub) : ub \in UBOutcomes} : Apply(t)
    /\ UNCHANGED alive
    /\ Event("client_to_workspace", idx)

KeyKillCurr ==
    /\ ~crashed
    /\ \E t \in {kill_curr(Entry)} : Apply(t)
    /\ UNCHANGED alive
    /\ Event("kill_curr", 0)

KeyMoveLeft ==
    /\ ~crashed
    /\ \E t \in {move_left(Entry)} : Apply(t)
    /\ UNCHANGED alive
    /\ Event("move_left", 0)

KeyMoveRight ==
    /\ ~crashed
    /\ \E t \in {move_right(Entry)} : Apply(t)
    /\ UNCHANGED alive
    /\ Event("move_right", 0)

KeyMoveUp ==
    /\ ~crashed
    /\ \E t \in {move_up(Entry)} : Apply(t)
    /\ UNCHANGED alive
    /\ Event("move_up", 0)

KeyMoveDown ==
    /\ ~crashed
    /\ \E t \in {move_down(Entry)} : Apply(t)
    /\ UNCHANGED alive
    /\ Event("move_down", 0)

Next ==
    \/ \E w \in Windows : MapRequest(w)
    \/ \E w \in Windows : DestroyNotify(w)
    \/ \E w \in Windows \cup {rootwin} : EnterNotify(w)
    \/ \E idx \in KeyIdx : KeyChangeWorkspace(idx)
    \/ \E idx \in KeyIdx : KeyClientToWorkspace(idx)
    \/ KeyKillCurr
    \/ KeyMoveLeft
    \/ KeyMoveRight
    \/ KeyMoveUp
    \/ KeyMoveDown

Spec == Init /\ [][Next]_vars

\* --------------------------------------------------------------------- quit
\* XQueryTree(rootwin): the client windows that exist and the manager's bars.
RootChildren(s, existing) == existing \cup BarWindows(s)

\* for (i = 0; i < nchildren; i++) send_kill_signal(children[i]);
RECURSIVE kill_children(_, _)
kill_children(s, children) ==
    IF children = {} THEN s
    ELSE LET w == CHOOSE v \in children : \A o \in children : v <= o
         IN kill_children(send_kill_signal(s, w), children \ {w})

die(s) == [s EXCEPT !.pc = "exited", !.exit_code = 1]

\* start()'s loop ends on quit_flag; main frees the cursor, closes the display
\* and returns 0.
main_return(s) ==
    [Issue(Issue(s, XCall("XFreeCursor", rootwin, <<>>, "")),
           XCall("XCloseDisplay", rootwin, <<>>, ""))
     EXCEPT !.pc = "exited", !.exit_code = 0]

\* The loop of quit at its test: while (nchildren > 0) { XQueryTree(...);
\* XNextEvent(...); ... }.  With children left it queries again and blocks for
\* the next event; otherwise quit ungrabs the keys and returns through
\* keypress to start().
drain(s, children) ==
    IF s.nchildren > 0
    THEN [s EXCEPT !.nchildren = Cardinality(children), !.pc = "drain"]
    ELSE main_return(Issue(s, XCall("XUngrabKey", rootwin, <<>>, "")))

quit(s, children) ==
    IF s.quit_flag
    THEN LET u1 == Issue(s, XCall("XUngrabKey", rootwin, <<>>, ""))
             u2 == Issue(u1, XCall("XDestroySubwindows", rootwin, <<>>, ""))
         IN die(Issue(u2, XCall("XCloseDisplay", rootwin, <<>>, "")))
    ELSE LET s1 == [s EXCEPT !.quit_flag = TRUE,
                             !.nchildren = Cardinality(children)]
         IN drain(kill_children(s1, children), children)

\* Control is back in the loop that dispatched the event: start()'s loop tests
\* quit_flag, quit()'s loop tests nchildren.
resume(s, children) ==
    IF s.crashed \/ s.pc = "exited" THEN s
    ELSE IF s.pc = "drain" THEN drain(s, children)
    ELSE IF s.quit_flag THEN main_return(s)
    ELSE s

Running == ~crashed /\ pc \in {"start", "drain"}

DrainWindows == 1..MaxDrainWindows

LoopMapRequest(w) ==
    /\ Running
    /\ w \notin xqueue.destroys
    /\ Managed(State, w) \/ FreeNodes(State) # {}
    /\ \E t \in {resume(maprequest(Entry, w),
                         RootChildren(State, alive \cup {w}))} : Apply(t)
    /\ alive' = alive \cup {w}
    /\ Event("maprequest", w)

\* A client destroys its window; the server queues the DestroyNotify.
ClientCloses(w) ==
    /\ Running
    /\ w \in alive
    /\ \E t \in {[State EXCEPT !.xqueue.destroys = @ \cup {w},
                                !.vis[w] = "none"]} : Apply(t)
    /\ alive' = alive \ {w}
    /\ UNCHANGED last_event

LoopDestroyNotify(w) ==
    /\ Running
    /\ w \in xqueue.destroys
    /\ \E t \in {resume(destroynotify([Entry EXCEPT !.xqueue.destroys = @ \ {w}],
                                       w, ub),
                         RootChildren(State, alive)) : ub \in UBOutcomes} : Apply(t)
    /\ UNCHANGED alive
    /\ Event("destroynotify", w)

\* events[ClientMessage] is empty: the event is dequeued and dropped.
LoopClientMessage ==
    /\ Running
    /\ xqueue.messages > 0
    /\ \E t \in {resume([Entry EXCEPT !.xqueue.messages = @ - 1],
                         RootChildren(State, alive))} : Apply(t)
    /\ UNCHANGED alive
    /\ Event("clientmessage", 0)

\* Super+Shift+e.  The second invocation destroys every child of root.
KeyQuit ==
    /\ Running
    /\ \E t \in {resume(quit(Entry, RootChildren(State, alive)),
                         RootChildren(State, alive))} : Apply(t)
    /\ alive' = IF quit_flag THEN {} ELSE alive
    /\ Event("quit", 0)

NextQuit ==
    \/ \E w \in DrainWindows : LoopMapRequest(w)
    \/ \E w \in DrainWindows : ClientCloses(w)
    \/ \E w \in DrainWindows : LoopDestroyNotify(w)
    \/ LoopClientMessage
    \/ KeyQuit

SpecQuit == Init /\ [][NextQuit]_vars

\* Every client eventually closes its window, and the server delivers the
\* ClientMessage events it queued for the manager.  No key press and no new
\* window is promised.
SpecQuitLive ==
    /\ SpecQuit
    /\ WF_vars(\E w \in DrainWindows : ClientCloses(w))
    /\ WF_vars(LoopClientMessage)

\* ----------------------------------------------------------------- commands
\* The commands of the key layer called on one workspace.  keys[] binds every
\* command below except swap_curr_with_master, which the source defines but
\* binds to no key: this specification calls it like the bound ones.
SwapCurrWithMaster ==
    /\ ~crashed
    /\ \E t \in {swap_curr_with_master(Entry)} : Apply(t)
    /\ UNCHANGED alive
    /\ Event("swap_curr_with_master", 0)

NextCommands ==
    \/ \E w \in Windows : MapRequest(w)
    \/ \E w \in Windows : DestroyNotify(w)
    \/ \E w \in Windows \cup {rootwin} : EnterNotify(w)
    \/ KeyKillCurr
    \/ KeyMoveLeft
    \/ KeyMoveRight
    \/ KeyMoveUp
    \/ KeyMoveDown
    \/ SwapCurrWithMaster

SpecCommands == Init /\ [][NextCommands]_vars

\* --------------------------------------------------------------- workspaces
\* The manager under map and destroy events and the two workspace commands.
NextWorkspaces ==
    \/ \E w \in Windows : MapRequest(w)
    \/ \E w \in Windows : DestroyNotify(w)
    \/ \E idx \in KeyIdx : KeyChangeWorkspace(idx)
    \/ \E idx \in KeyIdx : KeyClientToWorkspace(idx)

SpecWorkspaces == Init /\ [][NextWorkspaces]_vars

\* ------------------------------------------------------------------ startup
\* One entry of the output list XRRGetScreenResources returns, with the CRTC
\* geometry XRRGetCrtcInfo reports for it.
Output(connected, crtc, x, y, width, height) ==
    [connected |-> connected, crtc |-> crtc,
     x |-> x, y |-> y, width |-> width, height |-> height]

\* Geometry of the root window of the screen.
RootGeometry == [x |-> 0, y |-> 0, width |-> 1920, height |-> 1080]

\* The output lists startup is run against: one output; two outputs, the first
\* placed to the right of the second; a disconnected output before a connected
\* one; no output; one connected output without a CRTC.
OutputTrees ==
    << << Output(TRUE, TRUE, 0, 0, 1920, 1080) >>,
       << Output(TRUE, TRUE, 1920, 0, 1280, 1024),
          Output(TRUE, TRUE, 0, 0, 1920, 1080) >>,
       << Output(FALSE, FALSE, 0, 0, 0, 0),
          Output(TRUE, TRUE, 0, 0, 1920, 1080) >>,
       << >>,
       << Output(TRUE, FALSE, 0, 0, 0, 0) >> >>

\* Outcomes of reading width and height through the null selected_monitor in
\* the fallback of setup_monitors: the read faults, or it yields whatever the
\* build finds there, which may or may not be the root geometry.
NullReadOutcomes ==
    {[trap |-> TRUE, width |-> 0, height |-> 0]}
    \cup {[trap |-> FALSE, width |-> w, height |-> h]
             : w \in {0, RootGeometry.width}, h \in {0, RootGeometry.height}}

\* create_monitor, called for the k-th monitor of the list: the record, and the
\* bar window it creates and maps.
create_monitor(s, k, x, y, width, height, primary) ==
    LET s1 == Issue(s, XCall("XCreateWindow", MonitorBar(k),
                             <<x, y, width, bar_height>>, UNFOCUS))
        s2 == Issue(s1, XCall("XMapWindow", MonitorBar(k), <<>>, ""))
    IN [s2 EXCEPT !.monitors = Append(@, Monitor(x, y, width, height, primary))]

RECURSIVE add_monitors(_, _, _)
add_monitors(s, outputs, i) ==
    IF i > Len(outputs) THEN s
    ELSE LET o == outputs[i]
             s1 == IF o.connected /\ o.crtc
                   THEN [create_monitor(s, Len(s.monitors) + 1,
                                        o.x, o.y, o.width, o.height, i = 1)
                         EXCEPT !.selected_monitor =
                                    IF s.monitors = <<>> THEN 1 ELSE @]
                   ELSE s
         IN add_monitors(s1, outputs, i + 1)

setup_monitors(s, outputs, ub) ==
    LET s0 == [s EXCEPT !.monitors = <<>>, !.selected_monitor = NULL]
        s1 == add_monitors(s0, outputs, 1)
    IN IF s1.monitors # <<>> THEN s1
       ELSE IF ub.trap THEN [s1 EXCEPT !.crashed = TRUE]
       ELSE [create_monitor(s1, 1, 0, 0, ub.width, ub.height, TRUE)
             EXCEPT !.selected_monitor = 1]

setup_bar(s) ==
    LET s1 == Issue(s, XCall("XCreateWindow", bar_window,
                             <<0, 0, s.monitors[s.selected_monitor].width,
                               bar_height>>, UNFOCUS))
    IN Issue(s1, XCall("XMapWindow", bar_window, <<>>, ""))

\* main from setup_monitors to the call of start().
main(s, outputs, ub) ==
    LET s1 == setup_monitors(s, outputs, ub)
    IN IF s1.crashed THEN s1
       ELSE LET s2 == Issue(s1, XCall("XGrabKey", rootwin, <<>>, ""))
                s3 == setup_bar(s2)
                s4 == [s3 EXCEPT !.workspaces = [i \in WsIdx |-> EmptyWorkspace]]
                s5 == Issue(s4, XCall("XSelectInput", rootwin, <<>>, ""))
            IN [draw_bar(s5) EXCEPT !.pc = "start"]

InitStart ==
    /\ heap = [n \in Nodes |-> ZeroClient]
    /\ allocated = {}
    /\ workspaces = [i \in WsIdx |-> EmptyWorkspace]
    /\ monitors = <<>>
    /\ selected_monitor = NULL
    /\ vis = [w \in Windows |-> "none"]
    /\ calls = <<>>
    /\ crashed = FALSE
    /\ alive = {}
    /\ last_event = [type |-> "init", arg |-> 0]
    /\ quit_flag = FALSE
    /\ pc = "main"
    /\ nchildren = 0
    /\ exit_code = NoExit
    /\ nesting = 0
    /\ xqueue = EmptyQueue

\* main runs against the k-th output list.
Startup(k) ==
    /\ pc = "main"
    /\ ~crashed
    /\ \E t \in {main(Entry, OutputTrees[k], ub) : ub \in NullReadOutcomes} :
          Apply(t)
    /\ UNCHANGED alive
    /\ Event("startup", k)

NextStart ==
    \/ \E k \in 1..Len(OutputTrees) : Startup(k)
    \/ \E w \in Windows : LoopMapRequest(w)
    \/ \E w \in Windows : ClientCloses(w)
    \/ \E w \in Windows : LoopDestroyNotify(w)

SpecStart == InitStart /\ [][NextStart]_vars

\* ================================================================== claims
Cur == CurWs(State)

ActiveClients == ClientList(State, Cur)

ActiveWindows == WindowList(State, Cur)

Focused == workspaces[Cur].curr

\* The program state the step ends in.
Post ==
    [heap |-> heap', allocated |-> allocated', workspaces |-> workspaces',
     monitors |-> monitors', selected_monitor |-> selected_monitor',
     vis |-> vis', calls |-> calls', crashed |-> crashed',
     quit_flag |-> quit_flag', pc |-> pc', nchildren |-> nchildren',
     exit_code |-> exit_code', nesting |-> nesting', xqueue |-> xqueue']

IsMapCall(c) == c.call \in {"XMapWindow", "XUnmapWindow"}

\* C1: round-trip workspace switch: from every state with active workspace a
\* and for every k # a, change_workspace(k) followed by change_workspace(a)
\* leaves workspace a's head, focused client and window sequence as before.
RoundTripWorkspaceSwitch ==
    ~crashed =>
        \A k \in WsIdx \ {Cur} :
            LET back == change_workspace(change_workspace(Entry, k), Cur)
            IN /\ back.workspaces[Cur].first = workspaces[Cur].first
               /\ back.workspaces[Cur].curr = workspaces[Cur].curr
               /\ WindowList(back, Cur) = ActiveWindows

\* C2: after every handler, the existing windows whose latest Map/Unmap from
\* the manager is a Map are exactly the windows of the active workspace list.
VisibleSetIsActiveList ==
    ~crashed => {w \in alive : vis[w] = "map"} = SeqRange(ActiveWindows)

\* C3: focus membership: after any handler completes, a non-empty active list
\* has its focused client among its nodes, an empty one has focused = NULL.
FocusMembership ==
    ~crashed =>
        /\ ActiveClients # <<>> => Focused \in SeqRange(ActiveClients)
        /\ ActiveClients = <<>> => Focused = NULL

\* A removal from a list of several clients has just re-pointed the focus.
FocusMembershipWitness ==
    /\ ~crashed
    /\ last_event.type = "destroynotify"
    /\ calls # <<>>
    /\ ActiveClients # <<>>
    /\ Focused \in SeqRange(ActiveClients)

\* C4: client_to_workspace(idx) with a focused window w and idx # a: workspace
\* idx's list ends with a node for w, which is idx's focused client, and
\* workspace a's list is its old list without w, order kept.
MoveClientToWorkspace ==
    [][ (/\ last_event'.type = "client_to_workspace"
         /\ last_event'.arg # Cur
         /\ Focused # NULL)
        => LET a == Cur
               idx == last_event'.arg
               w == heap[Focused].window
               rest == SelectSeq(ActiveWindows, LAMBDA v : v # w)
           IN /\ ~crashed'
              /\ WindowList(Post, idx) # <<>>
              /\ LET D == ClientList(Post, idx)
                 IN /\ heap'[D[Len(D)]].window = w
                    /\ workspaces'[idx].curr = D[Len(D)]
              /\ WindowList(Post, a) = rest ]_vars

\* C5: client_to_workspace(idx) ends on the workspace it started on.
ClientToWorkspaceKeepsActiveIndex ==
    [][ last_event'.type = "client_to_workspace" => CurWs(Post) = Cur ]_vars

ListIntegrity ==
    \A i \in WsIdx :
        LET L == ClientList(State, i)
        IN \A k \in 1..Len(L) :
              /\ IF k = 1 THEN heap[L[k]].prev = NULL
                 ELSE /\ heap[L[k]].prev # NULL
                      /\ heap[heap[L[k]].prev].next = L[k]
              /\ \/ heap[L[k]].next = NULL
                 \/ heap[heap[L[k]].next].prev = L[k]

\* Windows 1, 2, 3 were mapped in turn and the middle one has been destroyed.
ListIntegrityWitness ==
    /\ ~crashed
    /\ last_event = [type |-> "destroynotify", arg |-> 2]
    /\ ActiveWindows = <<1, 3>>

\* C8: no workspace list holds two nodes with the same window handle.
NoDuplicateWindows ==
    \A i \in WsIdx :
        Cardinality(SeqRange(WindowList(State, i))) = Len(WindowList(State, i))

\* A MapRequest for a window that is already in the list was only mapped.
NoDuplicateWindowsWitness ==
    /\ last_event.type = "maprequest"
    /\ calls = << XCall("XMapWindow", last_event.arg, <<>>, "") >>
    /\ last_event.arg \in SeqRange(ActiveWindows)
    /\ Len(ActiveWindows) >= 2

\* C9: DestroyNotify for the focused client's window: the handler completes,
\* the node leaves the list, the others keep their order, and the focus moves
\* to the removed node's previous node, else its next node, else NULL.
RemoveFocusedClient ==
    [][ (/\ last_event'.type = "destroynotify"
         /\ Focused # NULL
         /\ heap[Focused].window = last_event'.arg)
        => LET c == Focused
               pv == heap[Focused].prev
               nx == heap[Focused].next
               rest == SelectSeq(ActiveClients, LAMBDA n : n # c)
           IN /\ ~crashed'
              /\ ClientList(Post, Cur) = rest
              /\ workspaces'[Cur].curr = IF pv # NULL THEN pv ELSE nx ]_vars

\* C10: DestroyNotify for a window that is not in the active list changes no
\* list, focused pointer or active index and issues no call.
DestroyUnmanagedIsNoOp ==
    ~crashed =>
        \A w \in Windows, ub \in UBOutcomes :
            ~Managed(State, w) => destroynotify(Entry, w, ub) = Entry

\* An unmanaged window was destroyed while the active list held clients.
DestroyUnmanagedIsNoOpWitness ==
    /\ ~crashed
    /\ last_event.type = "destroynotify"
    /\ calls = <<>>
    /\ ActiveClients # <<>>
    /\ last_event.arg \notin SeqRange(ActiveWindows)

\* List integrity and focus membership of a program state s.
IntegrityOf(s) ==
    \A i \in WsIdx :
        LET L == ClientList(s, i)
        IN \A k \in 1..Len(L) :
              /\ IF k = 1 THEN s.heap[L[k]].prev = NULL
                 ELSE /\ s.heap[L[k]].prev # NULL
                      /\ s.heap[s.heap[L[k]].prev].next = L[k]
              /\ \/ s.heap[L[k]].next = NULL
                 \/ s.heap[s.heap[L[k]].next].prev = L[k]

FocusOf(s) ==
    LET L == ClientList(s, CurWs(s))
    IN IF L = <<>> THEN SEL_MONITOR_WS(s).curr = NULL
       ELSE SEL_MONITOR_WS(s).curr \in SeqRange(L)

\* C11: a MapRequest for window w directly followed by a DestroyNotify for w,
\* from any reachable state of the active workspace: both handlers complete,
\* no workspace list holds a node for w, list integrity holds and the focused
\* client is a member of the active list, or NULL if that list is empty.
MapThenDestroyLeavesNoDanglingState ==
    [][ (/\ last_event.type = "maprequest"
         /\ last_event'.type = "destroynotify"
         /\ last_event'.arg = last_event.arg)
        => /\ ~crashed'
           /\ \A i \in WsIdx :
                 last_event'.arg \notin SeqRange(WindowList(Post, i))
           /\ IntegrityOf(Post)
           /\ FocusOf(Post) ]_vars

\* C12: quit drain terminates: once quit has latched the flag and entered its
\* loop, and every client closes its window and every queued event is
\* delivered and processed (no DestroyNotify stays queued for ever, and from
\* some point on no new window appears), the loop ends and the process exits,
\* with no further key press needed.
QuitDrainTerminates ==
    ([]<>(xqueue.destroys = {}) /\ <>[][alive' \subseteq alive]_vars)
        => ((pc = "drain") ~> (pc = "exited" \/ crashed))

\* The windows the manager holds a node for.
ManagedWindows == UNION {SeqRange(WindowList(State, i)) : i \in WsIdx}

KillMessages == {k \in 1..Len(calls) : calls[k].call = "XSendEvent"}

\* C13: quit broadcast: the first invocation of quit latches the Quit Flag and
\* sends one WM_DELETE_WINDOW per child of root; with n managed client windows
\* exactly n messages are broadcast.
QuitBroadcastsOnePerManagedWindow ==
    (last_event.type = "quit" /\ pc = "drain")
        => /\ quit_flag
           /\ Cardinality(KillMessages) = Cardinality(ManagedWindows)

RunToCompletion == nesting = 0

\* The selected monitor, the calls one relayout of the current state issues,
\* and the master width M.
SelMonitor == monitors[selected_monitor]

Relayout == tile_screen(Entry).calls

MasterWidth == (55 * SelMonitor.width) \div 100

\* C17: single-window layout: with exactly one client in the active list,
\* relayout issues exactly one move/resize, to (m.x + GAP, m.y + BAR_HEIGHT +
\* GAP, m.width - 3*GAP, m.height - 3*GAP - BAR_HEIGHT).
SingleWindowLayout ==
    (Running /\ Len(ActiveWindows) = 1)
        => Relayout =
             << XMoveResizeWindow(ActiveWindows[1],
                    SelMonitor.x + space,
                    SelMonitor.y + bar_height + space,
                    SelMonitor.width - 3 * space,
                    SelMonitor.height - 3 * space - bar_height) >>

\* C18: master tile: with two or more clients in the active list, relayout
\* moves/resizes the head to (m.x + GAP, m.y + BAR_HEIGHT + GAP, M,
\* m.height - 2*GAP - BAR_HEIGHT), M = floor(0.55 * m.width).
MasterTileLayout ==
    (Running /\ Len(ActiveWindows) >= 2)
        => /\ Relayout # <<>>
           /\ Relayout[1] =
                 XMoveResizeWindow(ActiveWindows[1],
                     SelMonitor.x + space,
                     SelMonitor.y + bar_height + space,
                     MasterWidth,
                     SelMonitor.height - 2 * space - bar_height)

\* C19: stack tiles: with n >= 1 clients after the head, relayout gives the
\* i-th of them (i = 0..n-1, list order) the rectangle (m.x + M + 3*GAP,
\* m.y + BAR_HEIGHT + GAP + i*floor(m.height/n), m.width - M - 5*GAP,
\* floor(m.height/n) - 2*GAP).
StackTileLayout ==
    (Running /\ Len(ActiveWindows) >= 2)
        => LET n == Len(ActiveWindows) - 1
           IN /\ Len(Relayout) = n + 1
              /\ \A i \in 0..(n - 1) :
                    Relayout[i + 2] =
                      XMoveResizeWindow(ActiveWindows[i + 2],
                          SelMonitor.x + MasterWidth + 3 * space,
                          SelMonitor.y + bar_height + space
                              + i * (SelMonitor.height \div n),
                          SelMonitor.width - MasterWidth - 5 * space,
                          (SelMonitor.height \div n) - 2 * space)

\* The k-th output list has no connected output with an active CRTC.
NoUsableOutput(k) ==
    \A i \in 1..Len(OutputTrees[k]) :
        ~(OutputTrees[k][i].connected /\ OutputTrees[k][i].crtc)

\* C20: monitor discovery fallback: when the output query yields no connected
\* output with an active CRTC, startup completes with exactly one monitor,
\* whose rectangle is the root geometry, and that monitor is selected; after
\* startup exactly one monitor is selected.
MonitorFallback ==
    /\ (last_event.type = "startup" /\ NoUsableOutput(last_event.arg))
          => /\ ~crashed
             /\ pc = "start"
             /\ Len(monitors) = 1
             /\ selected_monitor = 1
             /\ monitors[1].x = RootGeometry.x
             /\ monitors[1].y = RootGeometry.y
             /\ monitors[1].width = RootGeometry.width
             /\ monitors[1].height = RootGeometry.height
    /\ pc # "main" => selected_monitor \in 1..Len(monitors)

\* C21: primary monitor: for every output list that yields at least one
\* monitor, the first monitor discovered is flagged primary and is the
\* selected monitor.
PrimaryIsFirstDiscovered ==
    (last_event.type = "startup" /\ ~NoUsableOutput(last_event.arg))
        => /\ monitors # <<>>
           /\ monitors[1].primary
           /\ selected_monitor = 1

\* The state s with an empty call log.
Quiet(s) == [s EXCEPT !.calls = <<>>]

\* C22: MapRequest: for a window already in the active list the handler only
\* issues a map call and changes no list or focus; for any other window it
\* appends exactly one new node at the tail of the active list (the existing
\* clients keep their order), makes the new node the focused client, maps the
\* window, then relayouts and refocuses.
MapRequestEffect ==
    ~crashed =>
        \A w \in Windows :
            LET t == maprequest(Entry, w)
            IN IF Managed(State, w)
               THEN t = XMapWindow(Entry, w)
               ELSE FreeNodes(State) # {} =>
                      LET cl == t.workspaces[Cur].curr
                      IN /\ cl \in Nodes \ allocated
                         /\ t.allocated = allocated \cup {cl}
                         /\ ClientList(t, Cur) = Append(ActiveClients, cl)
                         /\ WindowList(t, Cur) = Append(ActiveWindows, w)
                         /\ \A i \in WsIdx \ {Cur} :
                                t.workspaces[i] = workspaces[i]
                         /\ CurWs(t) = Cur
                         /\ t.vis[w] = "map"
                         /\ t.calls =
                              << XCall("XSelectInput", w, <<>>, ""),
                                 XCall("XMapWindow", w, <<>>, "") >>
                              \o tile_screen(Quiet(t)).calls
                              \o update_curr(Quiet(t)).calls

\* A window was mapped into a list that already held two clients: it is the
\* tail and the focused client.
MapRequestEffectWitness ==
    /\ ~crashed
    /\ last_event.type = "maprequest"
    /\ Len(ActiveClients) = 3
    /\ ActiveWindows[3] = last_event.arg
    /\ Focused = ActiveClients[3]
    /\ Len(calls) > 2

\* C23: EnterNotify: for the root window or a window that is not a client of
\* the active list no state changes and no border, focus or raise call is
\* issued; for a client window of the active list the focused client becomes
\* that client, while the list's contents and order, the selected monitor and
\* the active workspace index are unchanged.
EnterNotifyEffect ==
    ~crashed =>
        \A w \in Windows \cup {rootwin} :
            LET t == enternotify(Entry, w)
            IN IF ~Managed(State, w)
               THEN t = Entry
               ELSE /\ t.workspaces[Cur].curr \in SeqRange(ActiveClients)
                    /\ heap[t.workspaces[Cur].curr].window = w
                    /\ t.heap = heap
                    /\ t.allocated = allocated
                    /\ [i \in WsIdx |-> t.workspaces[i].first]
                          = [i \in WsIdx |-> workspaces[i].first]
                    /\ \A i \in WsIdx \ {Cur} : t.workspaces[i] = workspaces[i]
                    /\ t.selected_monitor = selected_monitor
                    /\ t.monitors = monitors

\* The pointer entered a client of a list of two or more that is not the tail:
\* that client is focused and the borders were repainted.
EnterNotifyEffectWitness ==
    /\ ~crashed
    /\ last_event.type = "enternotify"
    /\ Len(ActiveClients) >= 2
    /\ Focused # NULL
    /\ heap[Focused].window = last_event.arg
    /\ Focused # ActiveClients[Len(ActiveClients)]
    /\ calls # <<>>

\* C24: move_right: if the focused client is the head and the head has a
\* successor, the focused client becomes head.next; in every other state the
\* focused client is unchanged.  The list's contents and order never change.
MoveRightEffect ==
    ~crashed =>
        LET t == move_right(Entry)
            first == workspaces[Cur].first
        IN /\ t.workspaces[Cur].curr =
                 IF Focused # NULL /\ Focused = first /\ heap[first].next # NULL
                 THEN heap[first].next
                 ELSE Focused
           /\ t.heap = heap
           /\ t.allocated = allocated
           /\ t.workspaces[Cur].first = first
           /\ \A i \in WsIdx \ {Cur} : t.workspaces[i] = workspaces[i]
           /\ CurWs(t) = Cur

\* move_right ran on a list of three clients and left the second focused, a
\* stack client with a successor of its own.
MoveRightEffectWitness ==
    /\ ~crashed
    /\ last_event.type = "move_right"
    /\ Len(ActiveClients) = 3
    /\ Focused = ActiveClients[2]
    /\ calls # <<>>

\* C25: swap_with_master: when a client is focused and it is not the head,
\* afterwards the head node carries the window that was focused, the
\* previously focused node carries the head's old window, every other node
\* keeps its window, the node sequence is unchanged and the focused client is
\* the head; when the focused client is the head or null, nothing changes.
SwapWithMasterEffect ==
    ~crashed =>
        LET t == swap_curr_with_master(Entry)
            first == workspaces[Cur].first
        IN IF Focused # NULL /\ Focused # first
           THEN /\ t.heap[first].window = heap[Focused].window
                /\ t.heap[Focused].window = heap[first].window
                /\ \A n \in Nodes \ {first, Focused} : t.heap[n] = heap[n]
                /\ \A n \in Nodes : /\ t.heap[n].next = heap[n].next
                                    /\ t.heap[n].prev = heap[n].prev
                /\ ClientList(t, Cur) = ActiveClients
                /\ t.workspaces[Cur].curr = first
                /\ t.workspaces[Cur].first = first
                /\ t.allocated = allocated
                /\ \A i \in WsIdx \ {Cur} : t.workspaces[i] = workspaces[i]
                /\ CurWs(t) = Cur
           ELSE t = Entry

\* swap_curr_with_master ran on a list of three with a stack client focused:
\* the layout was reissued and the head is the focused client.
SwapWithMasterEffectWitness ==
    /\ ~crashed
    /\ last_event.type = "swap_curr_with_master"
    /\ Len(ActiveClients) = 3
    /\ Focused = ActiveClients[1]
    /\ calls # <<>>

\* C26: kill_curr: when a client is focused, exactly two WM_DELETE_WINDOW
\* client messages are sent, both to the focused window; no other window is
\* messaged, no forced kill is issued, and no list, focus or active index
\* changes; when nothing is focused, nothing is sent.
KillCurrEffect ==
    ~crashed =>
        LET t == kill_curr(Entry)
            msg == XCall("XSendEvent", heap[Focused].window, <<>>,
                         "WM_DELETE_WINDOW")
        IN /\ t.calls = IF Focused # NULL THEN << msg, msg >> ELSE << >>
           /\ [t EXCEPT !.calls = <<>>] = Entry

\* kill_curr ran with a client focused in a list of two or more: the two
\* messages are the whole call log and the window is still managed.
KillCurrEffectWitness ==
    /\ ~crashed
    /\ last_event.type = "kill_curr"
    /\ Len(ActiveClients) >= 2
    /\ Focused # NULL
    /\ Len(calls) = 2
    /\ calls[1].window = heap[Focused].window

\* The positions of the bar paints in a call log.
BarPaints(log) == {k \in 1..Len(log) : log[k].call = "draw_bar"}

\* C27: bar consistency: after every handler completes, the most recent paint
\* of the bar highlights exactly one of the ten tags, the one equal to the
\* selected monitor's active workspace index; every change of the active
\* workspace index is followed, within the same handler, by a bar repaint.
BarConsistency ==
    [][ (~crashed /\ ~crashed')
          => /\ CurWs(Post) # Cur => BarPaints(calls') # {}
             /\ BarPaints(calls') # {}
                  => LET k == CHOOSE j \in BarPaints(calls') :
                                  \A o \in BarPaints(calls') : o <= j
                     IN calls'[k].args = << CurWs(Post) >> ]_vars

\* The workspaces whose list holds node n.
Owners(n) == {i \in WsIdx : n \in SeqRange(ClientList(State, i))}

\* C28: node ownership: after DestroyNotify for a managed window the removed
\* node has been freed; in every reachable state each allocated and not freed
\* node is a member of exactly one workspace list, and no list or focused
\* pointer refers to a freed node.
NodeOwnership ==
    ~crashed =>
        /\ \A n \in allocated : Cardinality(Owners(n)) = 1
        /\ Reachable(State) \subseteq allocated

\* The rectangle a move/resize call gives its window.
Rect(c) == [x |-> c.args[1], y |-> c.args[2], w |-> c.args[3], h |-> c.args[4]]

\* C29: tiles stay on the monitor: for every monitor at least 200 px wide and
\* high and every non-empty active list, each rectangle issued by relayout
\* has positive w and h and lies inside the monitor below the bar:
\* m.x <= x, m.y + BAR_HEIGHT <= y, x + w <= m.x + m.width and
\* y + h <= m.y + m.height.
TilesStayOnMonitor ==
    (Running /\ SelMonitor.width >= 200 /\ SelMonitor.height >= 200
       /\ ActiveWindows # <<>>)
        => \A k \in 1..Len(Relayout) :
              LET r == Rect(Relayout[k])
              IN /\ r.w > 0
                 /\ r.h > 0
                 /\ SelMonitor.x <= r.x
                 /\ SelMonitor.y + bar_height <= r.y
                 /\ r.x + r.w <= SelMonitor.x + SelMonitor.width
                 /\ r.y + r.h <= SelMonitor.y + SelMonitor.height

\* Two rectangles share a pixel.
Overlap(a, b) ==
    /\ a.w > 0 /\ a.h > 0 /\ b.w > 0 /\ b.h > 0
    /\ a.x < b.x + b.w /\ b.x < a.x + a.w
    /\ a.y < b.y + b.h /\ b.y < a.y + a.h

\* The rectangles of one relayout are pairwise disjoint.
RelayoutDisjoint ==
    \A j, k \in 1..Len(Relayout) :
        j < k => ~Overlap(Rect(Relayout[j]), Rect(Relayout[k]))

\* The extents tile_screen computes for the stack tiles are positive ints.
StackExtentsPositive ==
    /\ SelMonitor.width - MasterWidth - 5 * space > 0
    /\ (SelMonitor.height \div (Len(ActiveWindows) - 1)) - 2 * space > 0

DestroyUnfocusedKeepsFocus ==
    ~crashed =>
        \A w \in Windows, ub \in UBOutcomes :
            (/\ Managed(State, w)
             /\ Len(ActiveClients) >= 2
             /\ Focused # NULL
             /\ heap[Focused].window # w)
                => LET t == destroynotify(Entry, w, ub)
                   IN t.crashed \/ t.workspaces[Cur].curr = Focused

\* The window handles held by the ten workspace lists of s taken together.
TrackedWindows(s) == UNION {SeqRange(WindowList(s, i)) : i \in WsIdx}

\* C33: conservation of managed windows: change_workspace and
\* client_to_workspace never change the set of window handles tracked across
\* all ten workspace lists taken together; a window leaves that set only
\* through DestroyNotify and enters it only through MapRequest.
ManagedWindowsConserved ==
    [][ (~crashed /\ ~crashed')
          => /\ last_event'.type \in {"change_workspace", "client_to_workspace"}
                  => TrackedWindows(Post) = TrackedWindows(State)
             /\ TrackedWindows(State) \ TrackedWindows(Post) # {}
                  => last_event'.type = "destroynotify"
             /\ TrackedWindows(Post) \ TrackedWindows(State) # {}
                  => last_event'.type = "maprequest" ]_vars

====
